---- MODULE Spec2Model ----
(***************************************************************************)
(* Model of the sale-monitor aggregation pipeline                          *)
(* (scripts/parse_results.py) and of the files it persists.                *)
(*                                                                         *)
(* A scraped markdown document is a sequence of tokens: the bracket        *)
(* characters, the "(url)" groups that follow a closing bracket, and the   *)
(* content lines that the continuation markers separate.  A URL is the     *)
(* sequence of its "/"-separated parts, host first; a trailing "" part is  *)
(* a trailing slash.  Python's None for an image URL is the empty tuple.   *)
(***************************************************************************)
EXTENDS Integers, Sequences, FiniteSets, TLC

VARIABLES
    pc,               \* position of the current run inside main()
    run,              \* number of runs started so far
    args_min_discount,\* --min-discount: {} when not supplied, else {n}
    prefs,            \* preferences.json: {} when it has no min_discount_pct, else {n}
    min_discount,     \* main(): min_discount
    md_files,         \* main(): sorted list of input file names
    next_file,        \* index in md_files of the next file to parse
    all_products,     \* main(): all_products
    retailers,        \* main(): retailers
    unique_products,  \* main(): unique_products
    filtered,         \* main(): filtered (the record list that is emitted)
    jpy_usd_rate,     \* main(): jpy_usd_rate, {} for None, else {<<num, den>>}
    cache_file,       \* the image cache on disk
    lookups,          \* URLs handed to the external image lookup in this run
    result,           \* main(): result (meta and products), <<>> before it is built
    clock,            \* the wall clock, in seconds
    snapshots,        \* results directory: timestamp -> state of that snapshot file
    latest,           \* the latest.json link: {} when absent, else {timestamp}
    deals_html,       \* viewer/deals.html: {} when absent, else {timestamp rendered}
    exit_status,      \* exit status of the process of the current run, {} while running
    checker,          \* the page_checker.py process: its arguments, text and exit status
    extracted         \* one application of an extractor: its text and what it returned

vars == <<pc, run, args_min_discount, prefs, min_discount, md_files, next_file,
          all_products, retailers, unique_products, filtered, jpy_usd_rate,
          cache_file, lookups, result, clock, snapshots, latest, deals_html,
          exit_status, checker, extracted>>

-----------------------------------------------------------------------------
(* Bounds of the model *)

\* the content lines of a span handed to an extractor
MaxLines == 3

MaxFiles == 2
MaxRuns == 2

-----------------------------------------------------------------------------
(* Arithmetic *)

\* Python round(num/den) for den > 0: to the nearest integer, ties to even
Round(num, den) ==
    LET q == num \div den
        r == num % den
    IN  IF 2 * r < den THEN q
        ELSE IF 2 * r > den THEN q + 1
        ELSE IF q % 2 = 0 THEN q ELSE q + 1

NoImage == <<>>

-----------------------------------------------------------------------------
(* URLs *)

Last(s) == s[Len(s)]

\* url.rstrip('/'): drop the trailing empty parts
RECURSIVE RStripSlash(_)
RStripSlash(url) ==
    IF Len(url) > 1 /\ Last(url) = "" THEN RStripSlash(SubSeq(url, 1, Len(url) - 1))
    ELSE url

\* pid = p['url'].rstrip('/').split('/')[-1]
Pid(url) == Last(RStripSlash(url))

\* index of the first part equal to "product" from position i on, 0 if none
RECURSIVE FindPart(_, _, _)
FindPart(url, part, i) ==
    IF i > Len(url) THEN 0
    ELSE IF url[i] = part THEN i
    ELSE FindPart(url, part, i + 1)

Digits == {"101", "102", "7001", "7002"}

IsSsenseUrl(u) == Len(u) >= 2 /\ u[1] = "www.ssense.com" /\ (Len(u) > 2 \/ u[2] # "")

\* https://www.mrporter.com/[^)]*?/product/[^)]+
IsMrporterProductUrl(u) ==
    /\ Len(u) >= 3
    /\ u[1] = "www.mrporter.com"
    /\ \E i \in 2..Len(u) : u[i] = "product" /\ (i + 1 < Len(u) \/ (i + 1 = Len(u) /\ u[i + 1] # ""))

\* https://en.2ndstreet.jp/goods/detail/[^)]+
Is2ndstreetProductUrl(u) ==
    /\ Len(u) >= 4
    /\ u[1] = "en.2ndstreet.jp" /\ u[2] = "goods" /\ u[3] = "detail"
    /\ (Len(u) > 4 \/ u[4] # "")

IsMrporterImageUrl(u) ==
    Len(u) >= 4 /\ u[1] = "www.mrporter.com" /\ u[2] = "variants" /\ u[3] = "images"

Is2ndstreetImageUrl(u) ==
    Len(u) >= 5 /\ u[1] = "cdn2.2ndstreet.jp" /\ u[2] = "img" /\ u[3] = "pc" /\ u[4] = "goods"

\* re.search(r'/product/(?:[^/]+/)+(\d+)$', url): the product id, "" if no match
MrporterPid(url) ==
    LET i == FindPart(url, "product", 2)
    IN  IF /\ i > 0
           /\ Len(url) >= i + 2
           /\ \A j \in (i + 1)..(Len(url) - 1) : url[j] # ""
           /\ Last(url) \in Digits
        THEN Last(url) ELSE ""

\* re.search(r'/product/([^/]+)/', url): the brand slug, "" if no match
SsenseSlug(url) ==
    LET i == FindPart(url, "product", 2)
    IN  IF i > 0 /\ Len(url) >= i + 2 /\ url[i + 1] # "" THEN url[i + 1] ELSE ""

\* slug.replace('-', ' ').title(), on the slugs of the document universe
TitleOfSlug(slug) ==
    CASE slug = "acne-studios" -> "Acne Studios"
      [] slug = "marni" -> "Marni"
      [] OTHER -> slug

\* img_match.group(1).replace('_tn.jpg', '.jpg'); the file suffix is the last part
FullSize(u) ==
    IF Last(u) = "_tn.jpg" THEN [u EXCEPT ![Len(u)] = ".jpg"] ELSE u

-----------------------------------------------------------------------------
(* Documents as token sequences *)

\* A token: k is its lexical class, n the number of a price or percent line,
\* s the text of a content line, u the URL of a "(url)" group, li whether the
\* line carries the markdown list prefix "- ".
\*   "["  "!["  "]"  "("      the bracket characters and the "(url)" group
\*   "usd"   a line $N          "jpy"   a line ¥N
\*           (s = "$," / "¥,": a line the price pattern [0-9,]+ matches that
\*           has commas and no digit)
\*   "pct"   a line "N% off" (s = "off") or "N% OFF" (s = "OFF")
\*   "cond"  a line starting with "Item Condition:"
\*   "size"  a line matching ^Size\s      "hdr"  a line starting with "#"
\*   "dash"  a line that is "-" alone     "text" any other line
Tok(k, n, s, u, li) == [k |-> k, n |-> n, s |-> s, u |-> u, li |-> li]
Open == Tok("[", 0, "", <<>>, FALSE)
ImgOpen == Tok("![", 0, "", <<>>, FALSE)
Close == Tok("]", 0, "", <<>>, FALSE)
Paren(u) == Tok("(", 0, "", u, FALSE)
Usd(n) == Tok("usd", n, "$", <<>>, FALSE)
Jpy(n) == Tok("jpy", n, "¥", <<>>, FALSE)
Pct(n, s) == Tok("pct", n, s, <<>>, FALSE)
UsdCommas == Tok("usd", 0, "$,", <<>>, FALSE)
JpyCommas == Tok("jpy", 0, "¥,", <<>>, FALSE)
Txt(s) == Tok("text", 0, s, <<>>, FALSE)
Item(t) == [t EXCEPT !.li = TRUE]

IsLine(t) == t.k \notin {"[", "![", "]", "("}
HasOpenChar(t) == t.k \in {"[", "!["}

\* the URL patterns of the regular expressions, by name
UrlIs(pattern, u) ==
    CASE pattern = "ssense" -> IsSsenseUrl(u)
      [] pattern = "mrporter" -> IsMrporterProductUrl(u)
      [] pattern = "2ndstreet" -> Is2ndstreetProductUrl(u)
      [] pattern = "mrporter_image" -> IsMrporterImageUrl(u)
      [] pattern = "2ndstreet_image" -> Is2ndstreetImageUrl(u)
      [] OTHER -> TRUE

\* index of the first "]" directly followed by a "(url)" group whose URL
\* satisfies ok, from position i on; 0 if there is none
RECURSIVE FindLinkEnd(_, _, _)
FindLinkEnd(text, i, ok) ==
    IF i >= Len(text) THEN 0
    ELSE IF text[i].k = "]" /\ text[i + 1].k = "(" /\ UrlIs(ok, text[i + 1].u) THEN i
    ELSE FindLinkEnd(text, i + 1, ok)

\* the backward scan of parse_mrporter_products / parse_2ndstreet_products:
\* <<pos, depth>> when the while loop ends (positions count from 1, so the
\* loop runs while pos >= 1)
RECURSIVE ScanBack(_, _, _)
ScanBack(text, pos, depth) ==
    IF pos >= 1 /\ depth > 0
    THEN ScanBack(text, pos - 1,
                  IF text[pos].k = "]" THEN depth + 1
                  ELSE IF HasOpenChar(text[pos]) THEN depth - 1
                  ELSE depth)
    ELSE <<pos, depth>>

\* the scan with `while pos > 0`: a "[" at the first character is not found
MatchOpenNotFirst(text, end_pos) ==
    LET r == ScanBack(text, end_pos - 1, 1)
    IN  IF r[2] # 0 \/ r[1] = 0 THEN 0 ELSE r[1] + 1

\* start_pos, the position of the matching "[", or 0 when depth != 0
MatchOpen(text, end_pos) ==
    LET r == ScanBack(text, end_pos - 1, 1)
    IN  IF r[2] # 0 THEN 0 ELSE r[1] + 1

\* re.sub(r'!\[.*?\]\(.*?\)', '', raw_content, flags=re.DOTALL)
RECURSIVE StripImages(_, _)
StripImages(content, i) ==
    IF i > Len(content) THEN <<>>
    ELSE IF content[i].k = "!["
    THEN LET q == FindLinkEnd(content, i + 1, "any")
         IN  IF q = 0 THEN <<content[i]>> \o StripImages(content, i + 1)
             ELSE StripImages(content, q + 2)
    ELSE <<content[i]>> \o StripImages(content, i + 1)

\* re.search(r'!\[.*?\]\((<cdn url>)\)', raw_content): the URL, NoImage if none
RECURSIVE FindPartKind(_, _, _)
FindPartKind(content, kind, i) ==
    IF i > Len(content) THEN 0
    ELSE IF content[i].k = kind THEN i
    ELSE FindPartKind(content, kind, i + 1)

ImageIn(content, isCdn) ==
    LET p == FindPartKind(content, "![", 1)
        q == IF p = 0 THEN 0 ELSE FindLinkEnd(content, p + 1, isCdn)
    IN  IF q = 0 THEN NoImage ELSE content[q + 1].u

\* the content lines that are left after the image markup is stripped
CleanLines(content) == SelectSeq(StripImages(content, 1), IsLine)

\* re.match(r'^\$([0-9,]+)$', line)
IsUsdPrice(t) == t.k = "usd" /\ ~t.li

IsSsenseSkipped(t) ==
    t.k = "hdr" \/ (t.k = "text" /\ ~t.li /\ t.s \in {"SALE ONLY", "Sale Only"})

IsMrporterSkipped(t) ==
    \/ t.k = "pct" /\ t.s = "off" /\ ~t.li
    \/ t.k = "text" /\ ~t.li /\ t.s \in {"FINAL SALE", "FURTHER REDUCED"}

\* the price lines and the free-text lines of each extractor
IsPrice(fmt, t) ==
    CASE fmt = "usd" -> IsUsdPrice(t)
      [] fmt = "jpy" -> t.k = "jpy"

IsText(fmt, t) ==
    CASE fmt = "ssense" -> ~IsUsdPrice(t) /\ ~IsSsenseSkipped(t)
      [] fmt = "mrporter" -> ~IsUsdPrice(t) /\ ~IsMrporterSkipped(t)
      [] fmt = "2ndstreet" -> t.k \notin {"pct", "jpy", "cond", "size", "dash"}

\* int(price_m.group(1).replace(',', '')) raises ValueError on ''
IntRaises(t) == t.s \in {"$,", "¥,"}

PriceRaises(lines, fmt) ==
    \E i \in 1..Len(lines) : IsPrice(fmt, lines[i]) /\ IntRaises(lines[i])

RECURSIVE Prices(_, _)
Prices(lines, fmt) ==
    IF lines = <<>> THEN <<>>
    ELSE (IF IsPrice(fmt, Head(lines)) THEN <<Head(lines).n>> ELSE <<>>)
         \o Prices(Tail(lines), fmt)

RECURSIVE Texts(_, _)
Texts(lines, fmt) ==
    IF lines = <<>> THEN <<>>
    ELSE (IF IsText(fmt, Head(lines)) THEN <<Head(lines).s>> ELSE <<>>)
         \o Texts(Tail(lines), fmt)

-----------------------------------------------------------------------------
(* parse_ssense_products_simple *)

\* blocks = re.split(r'(?=\[!\[)', text): the block that starts at i ends
\* before the next "[" that is directly followed by "!["
RECURSIVE SsenseBlockEnd(_, _)
SsenseBlockEnd(text, j) ==
    IF j > Len(text) THEN Len(text)
    ELSE IF text[j].k = "[" /\ j < Len(text) /\ text[j + 1].k = "![" THEN j - 1
    ELSE SsenseBlockEnd(text, j + 1)

\* the body of the loop over blocks: the records one block yields (none or one)
SsenseRecord(block) ==
    LET m == FindLinkEnd(block, 1, "ssense")
        url == block[m + 1].u
        lines == CleanLines(block)
        prices == Prices(lines, "usd")
        text_lines == Texts(lines, "ssense")
        name == IF Len(text_lines) > 1 THEN text_lines[2] ELSE text_lines[1]
        brand == IF text_lines[1] = name /\ SsenseSlug(url) # ""
                 THEN TitleOfSlug(SsenseSlug(url)) ELSE text_lines[1]
    IN  IF m = 0 THEN <<>>
        ELSE IF Len(prices) >= 2 /\ Len(text_lines) >= 1
        THEN <<[brand |-> brand, name |-> name,
                sale_price |-> prices[1], original_price |-> prices[2], url |-> url]>>
        ELSE <<>>

SsenseRaises(block) ==
    FindLinkEnd(block, 1, "ssense") # 0 /\ PriceRaises(CleanLines(block), "usd")

RECURSIVE SsenseFrom(_, _)
SsenseFrom(text, i) ==
    IF i > Len(text) THEN <<>>
    ELSE LET e == SsenseBlockEnd(text, i + 1)
         IN  SsenseRecord(SubSeq(text, i, e)) \o SsenseFrom(text, e + 1)

parse_ssense_products_simple(text) == SsenseFrom(text, 1)

\* the blocks of the text, in order
RECURSIVE SsenseBlocksOf(_, _)
SsenseBlocksOf(text, i) ==
    IF i > Len(text) THEN <<>>
    ELSE LET e == SsenseBlockEnd(text, i + 1)
         IN  <<SubSeq(text, i, e)>> \o SsenseBlocksOf(text, e + 1)

parse_ssense_raises(text) ==
    \E i \in 1..Len(SsenseBlocksOf(text, 1)) : SsenseRaises(SsenseBlocksOf(text, 1)[i])

-----------------------------------------------------------------------------
(* parse_mrporter_products *)

MrporterImageFallback(url) ==
    IF MrporterPid(url) = "" THEN NoImage
    ELSE <<"www.mrporter.com", "variants", "images", MrporterPid(url), "in", "w358_q60.jpg">>

\* the body of the loop over url_re.finditer(text), for the match at end_pos
MrporterRecord(text, end_pos) ==
    LET url == text[end_pos + 1].u
        start_pos == MatchOpen(text, end_pos)
        raw_content == SubSeq(text, start_pos + 1, end_pos - 1)
        img == ImageIn(raw_content, "mrporter_image")
        lines == CleanLines(raw_content)
        prices == Prices(lines, "usd")
        text_lines == Texts(lines, "mrporter")
    IN  IF start_pos = 0 THEN <<>>
        ELSE IF Len(prices) < 2 \/ Len(text_lines) < 1 THEN <<>>
        ELSE <<[brand |-> text_lines[1],
                name |-> IF Len(text_lines) > 1 THEN text_lines[2] ELSE text_lines[1],
                sale_price |-> prices[2], original_price |-> prices[1], url |-> url,
                image_url |-> IF img # NoImage THEN img ELSE MrporterImageFallback(url)]>>

MrporterRaises(text, end_pos) ==
    LET start_pos == MatchOpen(text, end_pos)
    IN  /\ start_pos # 0
        /\ PriceRaises(CleanLines(SubSeq(text, start_pos + 1, end_pos - 1)), "usd")

RECURSIVE MrporterFrom(_, _)
MrporterFrom(text, i) ==
    LET m == FindLinkEnd(text, i, "mrporter")
    IN  IF m = 0 THEN <<>>
        ELSE MrporterRecord(text, m) \o MrporterFrom(text, m + 2)

parse_mrporter_products(text) == MrporterFrom(text, 1)

parse_mrporter_raises(text) ==
    \E m \in 1..Len(text) :
        /\ m < Len(text)
        /\ FindLinkEnd(text, m, "mrporter") = m
        /\ MrporterRaises(text, m)

-----------------------------------------------------------------------------
(* parse_2ndstreet_products *)

\* the value of the last line of class kind, none if there is no such line
RECURSIVE LastNumber(_, _, _)
LastNumber(lines, kind, none) ==
    IF lines = <<>> THEN none
    ELSE IF Last(lines).k = kind THEN Last(lines).n
    ELSE LastNumber(SubSeq(lines, 1, Len(lines) - 1), kind, none)

NoPrice == 0 - 1

\* original_price = round(price / (1 - discount_pct / 100)), discount_pct # 100
BackComputed(price, discount_pct) ==
    IF discount_pct < 100 THEN Round(price * 100, 100 - discount_pct)
    ELSE Round((0 - price) * 100, discount_pct - 100)

\* what the loop body has computed for the match at end_pos when it reaches
\* the back-calculation: valid is FALSE when the body has hit a continue
SecondhandSpan(text, end_pos) ==
    LET start_pos == MatchOpen(text, end_pos)
        raw_content == SubSeq(text, start_pos + 1, end_pos - 1)
        img == ImageIn(raw_content, "2ndstreet_image")
        lines == CleanLines(raw_content)
        price == LastNumber(lines, "jpy", NoPrice)
        text_lines == Texts(lines, "2ndstreet")
    IN  [valid |-> start_pos # 0 /\ price # NoPrice /\ Len(text_lines) >= 1,
         bad_price |-> start_pos # 0 /\ PriceRaises(lines, "jpy"),
         url |-> text[end_pos + 1].u,
         image_url |-> IF img = NoImage THEN NoImage ELSE FullSize(img),
         discount_pct |-> LastNumber(lines, "pct", 0),
         price |-> price,
         text_lines |-> text_lines]

\* int() of a price without digits raises ValueError; 1 - 100 / 100 is 0.0
\* and the division raises ZeroDivisionError
SecondhandRaises(span) == span.bad_price \/ (span.valid /\ span.discount_pct = 100)

SecondhandRecord(span) ==
    IF ~span.valid THEN <<>>
    ELSE <<[brand |-> span.text_lines[1],
            name |-> IF Len(span.text_lines) > 1 THEN span.text_lines[2]
                     ELSE span.text_lines[1],
            sale_price |-> span.price,
            original_price |-> IF span.discount_pct > 0
                               THEN BackComputed(span.price, span.discount_pct)
                               ELSE span.price,
            discount_pct |-> span.discount_pct,
            url |-> span.url,
            currency |-> "JPY",
            retailer_type |-> "secondhand",
            image_url |-> span.image_url]>>

\* <<raised, products>>: the loop over url_re.finditer(text) from position i
RECURSIVE SecondhandFrom(_, _)
SecondhandFrom(text, i) ==
    LET m == FindLinkEnd(text, i, "2ndstreet")
        span == SecondhandSpan(text, m)
        rest == SecondhandFrom(text, m + 2)
    IN  IF m = 0 THEN <<FALSE, <<>>>>
        ELSE IF SecondhandRaises(span) THEN <<TRUE, <<>>>>
        ELSE <<rest[1], SecondhandRecord(span) \o rest[2]>>

parse_2ndstreet_raises(text) == SecondhandFrom(text, 1)[1]

parse_2ndstreet_products(text) == SecondhandFrom(text, 1)[2]

-----------------------------------------------------------------------------
(* parse_file *)

\* basename.split('_')[0] if '_' in basename else 'unknown'; a file name is
\* the sequence of its "_"-separated parts
RetailerOf(name) == IF Len(name) > 1 THEN name[1] ELSE "unknown"

\* round((1 - sale_price / original_price) * 100), 0 when original_price is 0
DiscountOf(sale_price, original_price) ==
    IF original_price > 0
    THEN Round((original_price - sale_price) * 100, original_price)
    ELSE 0

\* the enrichment loop of parse_file; @@ keeps the left value, as setdefault does
Enrich(p, retailer) ==
    LET q == [retailer |-> retailer] @@ p @@ [image_url |-> NoImage]
        r == IF "discount_pct" \in DOMAIN q THEN q
             ELSE q @@ [discount_pct |-> DiscountOf(q.sale_price, q.original_price)]
    IN  r @@ [currency |-> "USD", retailer_type |-> "standard"]

EnrichAll(products, retailer) ==
    [i \in 1..Len(products) |-> Enrich(products[i], retailer)]

\* A document: readable is FALSE when open() fails, marker is TRUE when the
\* text has 'no sale products to display', short when len(text) < 500.
Skipped(doc) == doc.marker \/ doc.short

ParserRaises(retailer, text) ==
    IF retailer = "2ndstreet" THEN parse_2ndstreet_raises(text)
    ELSE IF retailer = "mrporter" THEN parse_mrporter_raises(text)
    ELSE parse_ssense_raises(text)

parse_file_raises(name, doc) ==
    \/ ~doc.readable
    \/ ~Skipped(doc) /\ ParserRaises(RetailerOf(name), doc.text)

ParserFor(retailer, text) ==
    IF retailer = "2ndstreet" THEN parse_2ndstreet_products(text)
    ELSE IF retailer = "mrporter" THEN parse_mrporter_products(text)
    ELSE parse_ssense_products_simple(text)

parse_file(name, doc) ==
    IF Skipped(doc) THEN <<>>
    ELSE EnrichAll(ParserFor(RetailerOf(name), doc.text), RetailerOf(name))

-----------------------------------------------------------------------------
(* The stages of main() as functions of the record list *)

\* lines 600-606: keep the first record of each url, in parse order
RECURSIVE DedupKeepLast(_)
DedupKeepLast(products) ==
    IF products = <<>> THEN <<>>
    ELSE IF \E j \in 2..Len(products) : products[j].url = Head(products).url
    THEN DedupKeepLast(Tail(products))
    ELSE <<Head(products)>> \o DedupKeepLast(Tail(products))

RECURSIVE DedupFrom(_, _)
DedupFrom(products, seen_urls) ==
    IF products = <<>> THEN <<>>
    ELSE IF Head(products).url \notin seen_urls
    THEN <<Head(products)>> \o DedupFrom(Tail(products), seen_urls \cup {Head(products).url})
    ELSE DedupFrom(Tail(products), seen_urls)

Deduplicated(products) == DedupFrom(products, {})

\* lines 611-612
PassesNoBypass(p, threshold) == p.discount_pct >= threshold

Passes(p, threshold) ==
    p.retailer_type = "secondhand" \/ p.discount_pct >= threshold

Filtered(products, threshold) == SelectSeq(products, LAMBDA p : Passes(p, threshold))

\* line 613: list.sort(key=discount_pct, reverse=True) is stable, so a record
\* goes behind every record whose discount is greater than or equal to its own
InsertBeforeTies(sorted, p) ==
    LET k == Cardinality({i \in 1..Len(sorted) : sorted[i].discount_pct > p.discount_pct})
    IN  SubSeq(sorted, 1, k) \o <<p>> \o SubSeq(sorted, k + 1, Len(sorted))

InsertDescending(sorted, p) ==
    LET k == Cardinality({i \in 1..Len(sorted) : sorted[i].discount_pct >= p.discount_pct})
    IN  SubSeq(sorted, 1, k) \o <<p>> \o SubSeq(sorted, k + 1, Len(sorted))

RECURSIVE SortedDescending(_)
SortedDescending(products) ==
    IF products = <<>> THEN <<>>
    ELSE InsertDescending(SortedDescending(SubSeq(products, 1, Len(products) - 1)),
                          Last(products))

\* convert_jpy_to_usd, for one record; rate is <<numerator, denominator>>
ConvertedKeepCurrency(p, rate) ==
    IF p.currency # "JPY" THEN p
    ELSE [sale_price_jpy |-> p.sale_price,
          original_price_jpy |-> p.original_price,
          sale_price |-> Round(p.sale_price * rate[1], rate[2]),
          original_price |-> Round(p.original_price * rate[1], rate[2])] @@ p

Converted(p, rate) ==
    IF p.currency # "JPY" THEN p
    ELSE [sale_price_jpy |-> p.sale_price,
          original_price_jpy |-> p.original_price,
          sale_price |-> Round(p.sale_price * rate[1], rate[2]),
          original_price |-> Round(p.original_price * rate[1], rate[2]),
          currency |-> "USD"] @@ p

convert_jpy_to_usd(products, rate) ==
    [i \in 1..Len(products) |-> Converted(products[i], rate)]

\* lines 627-631: the feedback state is a function from urls to status tags
Tagged(p, cortex_state) ==
    IF p.url \in DOMAIN cortex_state /\ cortex_state[p.url] # ""
    THEN [cortex_status |-> cortex_state[p.url]] @@ p
    ELSE p

\* line 579: args.min_discount or prefs.get('min_discount_pct', 50)
DefaultMinDiscount == 50

Threshold(args, preferences) ==
    IF args # {} /\ args # {0} THEN CHOOSE n \in args : TRUE
    ELSE IF preferences # {} THEN CHOOSE n \in preferences : TRUE
    ELSE DefaultMinDiscount

-----------------------------------------------------------------------------
(* resolve_ssense_images *)

\* line 502
NeedsImageAnyRetailer(p) == p.image_url = NoImage

NeedsImage(p) == p.retailer = "ssense" /\ p.image_url = NoImage

\* the productCode that the product page of url shows
ProductCode(url) ==
    CASE Pid(url) = "101" -> "231129M213001"
      [] Pid(url) = "102" -> "222761M236002"
      [] OTHER -> "000000X000000"

\* f'https://img.ssensemedia.com/images/{code}_1/x.jpg'
SsenseImage(code) == <<"img.ssensemedia.com", "images", code, "_1", "x.jpg">>

\* the cache file: missing, unparsable, or a JSON object from pid to image url
NoCache == [state |-> "missing", map |-> <<>>]
BadCache == [state |-> "corrupt", map |-> <<>>]
CacheOf(map) == [state |-> "ok", map |-> map]

\* lines 507-510: the dict that is loaded
LoadedCache(file) == IF file.state = "ok" THEN file.map ELSE <<>>

\* lines 514-519: the records that miss the cache, in list order
ToFetch(products, cache) ==
    SelectSeq(products, LAMBDA p : NeedsImage(p) /\ Pid(p.url) \notin DOMAIN cache)

\* lines 536-541: the cache after the lookups, fetched being the urls whose
\* lookup returned a product code
CacheNotStored(to_fetch, fetched, cache) == cache

RECURSIVE CacheAfter(_, _, _)
CacheAfter(to_fetch, fetched, cache) ==
    IF to_fetch = <<>> THEN cache
    ELSE LET p == Head(to_fetch)
             new == IF p.url \in fetched
                    THEN (Pid(p.url) :> SsenseImage(ProductCode(p.url))) @@ cache
                    ELSE cache
         IN  CacheAfter(Tail(to_fetch), fetched, new)

\* the record after the stage: from the cache, from a lookup, or unchanged
Resolved(p, cache, fetched) ==
    IF ~NeedsImage(p) THEN p
    ELSE IF Pid(p.url) \in DOMAIN cache THEN [p EXCEPT !.image_url = cache[Pid(p.url)]]
    ELSE IF p.url \in fetched
    THEN [p EXCEPT !.image_url = SsenseImage(ProductCode(p.url))]
    ELSE p

UrlsOf(products) == {products[i].url : i \in 1..Len(products)}

-----------------------------------------------------------------------------
(* The documents, preferences and collaborators that the runs draw from *)

S1 == <<"www.ssense.com", "en-us", "men", "product", "acne-studios", "shirt", "101">>
S1Slash == S1 \o <<"">>
S2 == <<"www.ssense.com", "en-us", "men", "product", "marni", "boots", "102">>
M1 == <<"www.mrporter.com", "en-us", "mens", "product", "marni", "shoes", "7001">>
M2 == <<"www.mrporter.com", "en-us", "mens", "product", "marni", "coat">>
J1 == <<"en.2ndstreet.jp", "goods", "detail", "goodsId", "2001">>
J2 == <<"en.2ndstreet.jp", "goods", "detail", "goodsId", "2002">>
RemovedImage == <<"<Base64-Image-Removed>">>
MrporterImage == <<"www.mrporter.com", "variants", "images", "7002", "in", "w358_q60.jpg">>
SecondhandThumb == <<"cdn2.2ndstreet.jp", "img", "pc", "goods", "2001", "_tn.jpg">>

Image(u) == <<ImgOpen, Txt("alt"), Close, Paren(u)>>

SsenseBlock(url, lines) == <<Open>> \o Image(RemovedImage) \o lines \o <<Close, Paren(url)>>
LinkBlock(url, img, lines) == <<Open>> \o img \o lines \o <<Close, Paren(url)>>
Unopened(url, lines) == <<Close>> \o lines \o <<Close, Paren(url)>>

SsenseRepeated ==
    { SsenseBlock(S1, <<Txt("ACNE STUDIOS"), Txt("Blue Shirt"), Usd(50), Usd(100)>>),
      SsenseBlock(S2, <<Txt("MARNI"), Txt("Ankle Boots"), Usd(60), Usd(100)>>),
      SsenseBlock(S1, <<Txt("SALE ONLY"), Txt("ACNE STUDIOS"), Txt("Blue Shirt"),
                        Usd(60), Usd(100)>>) }

SsenseBlocks ==
    { SsenseBlock(S1Slash, <<Txt("Logo Tee"), Usd(70), Usd(100)>>),
      SsenseBlock(S2, <<Txt("MARNI"), Txt("Ankle Boots"), Usd(60), Usd(100)>>),
      SsenseBlock(S1, <<Txt("ACNE STUDIOS"), Txt("Blue Shirt"), Usd(60), Usd(100)>>),
      SsenseBlock(S2, <<Txt("MARNI"), Txt("Ankle Boots"), Usd(100)>>) }

MrporterRepeated ==
    { LinkBlock(M1, <<>>, <<Txt("Marni"), Txt("Suede Shoes"), Usd(100),
                            Pct(50, "off"), Usd(50)>>),
      LinkBlock(M2, <<>>, <<Txt("Marni"), Txt("Wool Coat"), Txt("FINAL SALE"),
                            Usd(100), Usd(60)>>) }

MrporterBlocks ==
    { LinkBlock(M2, Image(MrporterImage), <<Txt("Marni"), Usd(100), Usd(70)>>),
      Unopened(M1, <<Txt("Marni"), Txt("Suede Shoes"), Usd(100), Usd(50)>>) }

SecondhandRepeated ==
    { LinkBlock(J1, Image(SecondhandThumb),
                <<Item(Pct(20, "OFF")), Txt("COMME des GARCONS"), Txt("Jacket"),
                  Tok("size", 0, "Size M", <<>>, FALSE),
                  Tok("cond", 0, "Item Condition: Used", <<>>, FALSE), Jpy(800)>>),
      LinkBlock(J2, <<>>, <<Txt("ISSEY MIYAKE"), Jpy(1000)>>) }

SecondhandBlocks ==
    { LinkBlock(J1, <<>>, <<Pct(50, "off"), Txt("COMME des GARCONS"), Txt("Jacket"),
                            Jpy(2000)>>),
      LinkBlock(J2, <<>>, <<Txt("ISSEY MIYAKE"), Txt("Pleats Please")>>) }

FullPriceBlock == LinkBlock(J1, <<>>, <<Pct(100, "OFF"), Txt("COMME des GARCONS"), Jpy(500)>>)

Doc(text) == [readable |-> TRUE, marker |-> FALSE, short |-> FALSE, text |-> text]
Unreadable == [readable |-> FALSE, marker |-> FALSE, short |-> FALSE, text |-> <<>>]
NoResults(text) == [readable |-> TRUE, marker |-> TRUE, short |-> FALSE, text |-> text]
Placeholder(text) == [readable |-> TRUE, marker |-> FALSE, short |-> TRUE, text |-> text]

\* the documents of one block, and of two of the blocks that may repeat
Documents(repeated, blocks) ==
    {Doc(b) : b \in repeated \cup blocks} \cup {Doc(a \o b) : a, b \in repeated}

\* file names in the order sorted() gives them
File2ndstreet == <<"2ndstreet", "p1.md">>
FileMrporter == <<"mrporter", "p1.md">>
FileSale == <<"sale.md">>
FileSsense1 == <<"ssense", "p1.md">>
FileSsense2 == <<"ssense", "p2.md">>

DocsOfPages ==
    (File2ndstreet :> Documents(SecondhandRepeated, SecondhandBlocks))
    @@ (FileMrporter :> Documents(MrporterRepeated, MrporterBlocks))
    @@ (FileSale :> Documents({}, {SsenseBlock(S2, <<Txt("MARNI"), Txt("Ankle Boots"),
                                                     Usd(60), Usd(100)>>)}))
    @@ (FileSsense1 :> Documents(SsenseRepeated, {}))
    @@ (FileSsense2 :>
          Documents({}, SsenseBlocks)
          \cup {NoResults(SsenseBlock(S2, <<Txt("MARNI"), Txt("Ankle Boots"),
                                            Usd(50), Usd(100)>>))})

DocsOfFaults ==
    (File2ndstreet :>
        {Doc(FullPriceBlock), Doc(LinkBlock(J2, <<>>, <<Txt("ISSEY MIYAKE"), Jpy(1000)>>))})
    @@ (FileMrporter :>
        {Doc(LinkBlock(M2, <<>>, <<Txt("Marni"), Txt("Wool Coat"), Usd(100), Usd(60)>>)),
         Doc(Unopened(M1, <<Txt("Marni"), Txt("Suede Shoes"), Usd(100), Usd(50)>>))})
    @@ (FileSale :> {Doc(SsenseBlock(S2, <<Txt("MARNI"), Usd(60), Usd(100)>>))})
    @@ (FileSsense1 :>
        {Unreadable,
         Placeholder(SsenseBlock(S1, <<Txt("Blue Shirt"), Usd(50), Usd(100)>>)),
         Doc(SsenseBlock(S1, <<Txt("Blue Shirt"), Usd(50), Usd(100)>>)),
         Doc(SsenseBlock(S2, <<Txt("MARNI"), Usd(60), Usd(100)>>)
             \o SsenseBlock(S1Slash, <<Txt("Logo Tee"), Usd(50), Usd(100)>>)),
         Doc(SsenseBlock(S1, <<Txt("Blue Shirt"), Usd(50), Usd(100)>>)
             \o SsenseBlock(S1Slash, <<Txt("Logo Tee"), Usd(50), Usd(100)>>))})

NoArg == {}
NoPref == {}
NoRate == {}
NoResult == <<>>
NoSnapshots == <<>>

\* JPY->USD rates as <<numerator, denominator>>
Rate67 == <<67, 10000>>
RateHalf == <<1, 2>>

\* what a behaviour draws from: the file names in sorted order, the documents
\* a file may hold, the <<--min-discount, preferences>> pairs, the states the
\* cache file starts in, the rates the exchange-rate service may return, and
\* the number of runs
Pages ==
    [names |-> <<File2ndstreet, FileMrporter, FileSale, FileSsense1, FileSsense2>>,
     docs |-> DocsOfPages,
     options |-> {<<NoArg, NoPref>>, <<NoArg, {40}>>, <<{0}, NoPref>>, <<{0}, {40}>>,
                  <<{30}, NoPref>>, <<{30}, {40}>>},
     caches |-> {NoCache},
     rates |-> {Rate67, RateHalf},
     runs |-> 1]

Faults ==
    [names |-> <<File2ndstreet, FileMrporter, FileSale, FileSsense1>>,
     docs |-> DocsOfFaults,
     options |-> {<<NoArg, {40}>>},
     caches |-> {NoCache, BadCache, CacheOf(<<>>)},
     rates |-> {Rate67},
     runs |-> MaxRuns]

FeedbackStates == {<<>>, (S1 :> "liked") @@ (J2 :> "")}

\* sorted(glob.glob(...)): the sorted lists of at most MaxFiles of the names
FileLists(names) ==
    LET picks == {P \in SUBSET (1..Len(names)) : Cardinality(P) <= MaxFiles}
        Nth(P, i) == CHOOSE x \in P : Cardinality({y \in P : y < x}) = i - 1
    IN  {[i \in 1..Cardinality(P) |-> names[Nth(P, i)]] : P \in picks}

-----------------------------------------------------------------------------
(* page_checker.py *)

\* re.findall(r'\d+%\s*OFF', text, re.IGNORECASE): the percent lines
RECURSIVE Discounts(_)
Discounts(text) ==
    IF text = <<>> THEN <<>>
    ELSE (IF Head(text).k = "pct" THEN <<Head(text).n>> ELSE <<>>) \o Discounts(Tail(text))

\* True if the page has at least one discounted product
check_no_discount(text) == Len(Discounts(text)) > 0

\* set(re.findall(r'https://en\.2ndstreet\.jp/goods/detail/[^\s\)\]]+', text))
PageUrls(text) ==
    {text[i].u : i \in {j \in 1..Len(text) : Is2ndstreetProductUrl(text[j].u)}}

\* latest.json as the checker reads it: a file that is missing or is not
\* JSON, or the product list of a snapshot
LatestNotFound == [loadable |-> FALSE, products |-> <<>>]
LatestOf(products) == [loadable |-> TRUE, products |-> products]

\* known_urls, the urls of data['products']
KnownUrls(latest_file) == {latest_file.products[i].url : i \in 1..Len(latest_file.products)}

\* True if the page has enough unseen products to continue; threshold is
\* <<numerator, denominator>> and ratio < threshold is compared exactly
check_seen_before(text, latest_file, threshold) ==
    LET page_urls == PageUrls(text)
        overlap == page_urls \cap KnownUrls(latest_file)
    IN  IF page_urls = {} THEN FALSE
        ELSE IF ~latest_file.loadable THEN TRUE
        ELSE Cardinality(overlap) * threshold[2] < threshold[1] * Cardinality(page_urls)

NoChecker == [pc |-> "idle"]
NoExtract == [pc |-> "idle"]

-----------------------------------------------------------------------------
(* The runs *)

Running == pc \notin {"idle", "done", "exit"}

InitOf(U) ==
    /\ pc = "idle"
    /\ run = 0
    /\ args_min_discount = NoArg
    /\ prefs = NoPref
    /\ min_discount = DefaultMinDiscount
    /\ md_files = <<>>
    /\ next_file = 1
    /\ all_products = <<>>
    /\ retailers = {}
    /\ unique_products = <<>>
    /\ filtered = <<>>
    /\ jpy_usd_rate = NoRate
    /\ cache_file \in U.caches
    /\ lookups = {}
    /\ result = NoResult
    /\ clock = 0
    /\ snapshots = NoSnapshots
    /\ latest = {}
    /\ deals_html = {}
    /\ exit_status = {}
    /\ checker = NoChecker
    /\ extracted = NoExtract

\* an uncaught exception ends the process with status 1
Raise ==
    /\ pc' = "exit"
    /\ exit_status' = {1}

\* lines 583-585: print and return; the process ends with status 0
NoInputExitFails ==
    /\ pc' = "exit"
    /\ exit_status' = {1}

NoInputExit ==
    /\ pc' = "exit"
    /\ exit_status' = {0}

\* lines 559-587: the arguments, the preferences and the file list; with no
\* file main() prints a message and returns
StartRun(U) ==
    /\ ~Running
    /\ UNCHANGED <<checker, extracted>>
    /\ run < U.runs
    /\ run' = run + 1
    /\ \E o \in U.options :
          /\ args_min_discount' = o[1]
          /\ prefs' = o[2]
          /\ min_discount' = Threshold(o[1], o[2])
    /\ \E files \in FileLists(U.names) :
          /\ md_files' = files
          /\ IF files = <<>>
             THEN NoInputExit
             ELSE pc' = "parse" /\ exit_status' = {}
    /\ next_file' = 1
    /\ all_products' = <<>>
    /\ retailers' = {}
    /\ unique_products' = <<>>
    /\ filtered' = <<>>
    /\ jpy_usd_rate' = NoRate
    /\ lookups' = {}
    /\ result' = NoResult
    /\ UNCHANGED <<cache_file, clock, snapshots, latest, deals_html>>

\* lines 592-596: one iteration of the loop over md_files
ParseFile(U) ==
    /\ pc = "parse"
    /\ UNCHANGED <<checker, extracted>>
    /\ \E doc \in U.docs[md_files[next_file]] :
          LET name == md_files[next_file]
              products == parse_file(name, doc)
          IN  IF parse_file_raises(name, doc)
              THEN /\ Raise
                   /\ UNCHANGED <<all_products, retailers, next_file>>
              ELSE /\ all_products' = all_products \o products
                   /\ retailers' = IF products # <<>>
                                   THEN retailers \cup {products[1].retailer}
                                   ELSE retailers
                   /\ next_file' = next_file + 1
                   /\ pc' = IF next_file = Len(md_files) THEN "dedup" ELSE "parse"
                   /\ UNCHANGED exit_status
    /\ UNCHANGED <<run, args_min_discount, prefs, min_discount, md_files,
                   unique_products, filtered, jpy_usd_rate, cache_file, lookups,
                   result, clock, snapshots, latest, deals_html>>

\* lines 600-606
Deduplicate ==
    /\ pc = "dedup"
    /\ UNCHANGED <<checker, extracted>>
    /\ unique_products' = Deduplicated(all_products)
    /\ pc' = "filter"
    /\ UNCHANGED <<run, args_min_discount, prefs, min_discount, md_files, next_file,
                   all_products, retailers, filtered, jpy_usd_rate, cache_file,
                   lookups, result, clock, snapshots, latest, deals_html, exit_status>>

\* lines 610-613
FilterAndSort ==
    /\ pc = "filter"
    /\ UNCHANGED <<checker, extracted>>
    /\ filtered' = SortedDescending(Filtered(unique_products, min_discount))
    /\ pc' = "currency"
    /\ UNCHANGED <<run, args_min_discount, prefs, min_discount, md_files, next_file,
                   all_products, retailers, unique_products, jpy_usd_rate, cache_file,
                   lookups, result, clock, snapshots, latest, deals_html, exit_status>>

\* lines 617-620: fetch_jpy_usd_rate returns a rate or None, and the records
\* are converted when it returns a rate
ConvertCurrency(U) ==
    /\ pc = "currency"
    /\ UNCHANGED <<checker, extracted>>
    /\ \E rate \in {NoRate} \cup {{r} : r \in U.rates} :
          /\ jpy_usd_rate' = rate
          /\ filtered' = IF rate = NoRate THEN filtered
                         ELSE convert_jpy_to_usd(filtered, CHOOSE r \in rate : TRUE)
    /\ pc' = "image"
    /\ UNCHANGED <<run, args_min_discount, prefs, min_discount, md_files, next_file,
                   all_products, retailers, unique_products, cache_file, lookups,
                   result, clock, snapshots, latest, deals_html, exit_status>>

\* line 623, resolve_ssense_images: api_key tells whether a credential is
\* found, fetched is the set of urls whose lookup returns a product code
ResolveImages ==
    /\ pc = "image"
    /\ UNCHANGED <<checker, extracted>>
    /\ \E api_key \in BOOLEAN, fetched \in SUBSET UrlsOf(filtered) :
          LET cache == LoadedCache(cache_file)
              to_fetch == ToFetch(filtered, cache)
          IN  IF \A i \in 1..Len(filtered) : ~NeedsImage(filtered[i])
              THEN /\ fetched = {} /\ api_key
                   /\ pc' = "feedback"
                   /\ UNCHANGED <<filtered, cache_file, lookups, exit_status>>
              ELSE IF cache_file.state = "corrupt"
              THEN /\ fetched = {} /\ api_key
                   /\ Raise
                   /\ UNCHANGED <<filtered, cache_file, lookups>>
              ELSE IF to_fetch = <<>> \/ ~api_key
              THEN /\ fetched = {}
                   /\ to_fetch = <<>> => api_key
                   /\ filtered' = [i \in 1..Len(filtered) |->
                                      Resolved(filtered[i], cache, {})]
                   /\ pc' = "feedback"
                   /\ UNCHANGED <<cache_file, lookups, exit_status>>
              ELSE /\ fetched \subseteq UrlsOf(to_fetch)
                   /\ filtered' = [i \in 1..Len(filtered) |->
                                      Resolved(filtered[i], cache, fetched)]
                   /\ cache_file' = CacheOf(CacheAfter(to_fetch, fetched, cache))
                   /\ lookups' = UrlsOf(to_fetch)
                   /\ pc' = "feedback"
                   /\ UNCHANGED exit_status
    /\ UNCHANGED <<run, args_min_discount, prefs, min_discount, md_files, next_file,
                   all_products, retailers, unique_products, jpy_usd_rate,
                   result, clock, snapshots, latest, deals_html>>

\* lines 626-631: _load_cortex_state returns {} on any failure
MergeFeedback ==
    /\ pc = "feedback"
    /\ UNCHANGED <<checker, extracted>>
    /\ \E cortex_state \in FeedbackStates :
          filtered' = [i \in 1..Len(filtered) |-> Tagged(filtered[i], cortex_state)]
    /\ pc' = "build"
    /\ UNCHANGED <<run, args_min_discount, prefs, min_discount, md_files, next_file,
                   all_products, retailers, unique_products, jpy_usd_rate, cache_file,
                   lookups, result, clock, snapshots, latest, deals_html, exit_status>>

\* lines 635-657: the result is built and open(json_path, 'w') creates or
\* truncates the snapshot file named after the current second.  clock is the
\* last second a run has read, 0 before any; a snapshot file is kept here by
\* its state, its content being result
MetaRawCount(now) ==
    [scraped_at |-> now,
     retailers |-> retailers,
     total_parsed |-> Len(all_products),
     total_filtered |-> Len(filtered),
     min_discount_pct |-> min_discount,
     jpy_usd_rate |-> jpy_usd_rate]

Meta(now) ==
    [scraped_at |-> now,
     retailers |-> retailers,
     total_parsed |-> Len(unique_products),
     total_filtered |-> Len(filtered),
     min_discount_pct |-> min_discount,
     jpy_usd_rate |-> jpy_usd_rate]

OpenSnapshot ==
    /\ pc = "build"
    /\ UNCHANGED <<checker, extracted>>
    /\ \E now \in {clock, clock + 1} :
          /\ now = clock => clock \in DOMAIN snapshots
          /\ clock' = now
          /\ result' = [meta |-> Meta(now), products |-> filtered]
          /\ snapshots' = (now :> "truncated") @@ snapshots
    /\ pc' = "dump"
    /\ UNCHANGED <<run, args_min_discount, prefs, min_discount, md_files, next_file,
                   all_products, retailers, unique_products, filtered, jpy_usd_rate,
                   cache_file, lookups, latest, deals_html, exit_status>>

\* line 658: json.dump(result, f) and the close of the file
DumpSnapshot ==
    /\ pc = "dump"
    /\ UNCHANGED <<checker, extracted>>
    /\ snapshots' = [snapshots EXCEPT ![result.meta.scraped_at] = "complete"]
    /\ pc' = "unlink"
    /\ UNCHANGED <<run, args_min_discount, prefs, min_discount, md_files, next_file,
                   all_products, retailers, unique_products, filtered, jpy_usd_rate,
                   cache_file, lookups, result, clock, latest, deals_html, exit_status>>

\* lines 662-664: os.remove(latest_path) when the link exists
RemoveLatest ==
    /\ pc = "unlink"
    /\ UNCHANGED <<checker, extracted>>
    /\ latest' = {}
    /\ pc' = "symlink"
    /\ UNCHANGED <<run, args_min_discount, prefs, min_discount, md_files, next_file,
                   all_products, retailers, unique_products, filtered, jpy_usd_rate,
                   cache_file, lookups, result, clock, snapshots, deals_html,
                   exit_status>>

\* line 665: os.symlink(os.path.basename(json_path), latest_path)
LinkLatest ==
    /\ pc = "symlink"
    /\ UNCHANGED <<checker, extracted>>
    /\ latest' = {result.meta.scraped_at}
    /\ pc' = "html"
    /\ UNCHANGED <<run, args_min_discount, prefs, min_discount, md_files, next_file,
                   all_products, retailers, unique_products, filtered, jpy_usd_rate,
                   cache_file, lookups, result, clock, snapshots, deals_html,
                   exit_status>>

\* lines 669-673 and generate_deals_html: nothing is written without a template
WriteHtml ==
    /\ pc = "html"
    /\ UNCHANGED <<checker, extracted>>
    /\ \E template \in BOOLEAN :
          deals_html' = IF template THEN {result.meta.scraped_at} ELSE deals_html
    /\ pc' = "done"
    /\ exit_status' = {0}
    /\ UNCHANGED <<run, args_min_discount, prefs, min_discount, md_files, next_file,
                   all_products, retailers, unique_products, filtered, jpy_usd_rate,
                   cache_file, lookups, result, clock, snapshots, latest>>

Next(U) ==
    \/ StartRun(U)
    \/ ParseFile(U)
    \/ Deduplicate
    \/ FilterAndSort
    \/ ConvertCurrency(U)
    \/ ResolveImages
    \/ MergeFeedback
    \/ OpenSnapshot
    \/ DumpSnapshot
    \/ RemoveLatest
    \/ LinkLatest
    \/ WriteHtml

\* one run over the pages of every format
Spec == InitOf(Pages) /\ [][Next(Pages)]_vars

\* several runs over documents, cache files and collaborators that fail
SpecRuns == InitOf(Faults) /\ [][Next(Faults)]_vars

-----------------------------------------------------------------------------
(* The runs of page_checker.py *)

J3 == <<"en.2ndstreet.jp", "goods", "detail", "goodsId", "2003">>

SecondhandPage(url, lines) == LinkBlock(url, <<>>, lines)

\* the scraped pages handed to the checker: no product, one to three products,
\* a product listed twice, a page of another retailer
CheckerTexts ==
    LET a == SecondhandPage(J1, <<Pct(20, "OFF"), Txt("COMME des GARCONS"), Jpy(800)>>)
        b == SecondhandPage(J2, <<Txt("ISSEY MIYAKE"), Jpy(1000)>>)
        c == SecondhandPage(J3, <<Pct(30, "off"), Txt("KAPITAL"), Jpy(700)>>)
    IN  {<<Txt("No items")>>, a, b, a \o b, b \o c, a \o a, b \o b \o c, a \o b \o c,
         LinkBlock(M2, <<>>, <<Txt("Marni"), Usd(100), Usd(60)>>)}

\* the states of latest.json: absent or unparsable, or a snapshot of the
\* records that the secondhand extractor yields
CheckerLatest ==
    {LatestNotFound} \cup {LatestOf(parse_2ndstreet_products(t)) : t \in CheckerTexts}

\* --threshold as <<numerator, denominator>>; 0.5 is the default
CheckerThresholds == {<<0, 1>>, <<1, 3>>, <<1, 2>>, <<1, 1>>}

\* lines 58-80: the arguments and the page file; a missing file and a missing
\* --latest in seen_before mode end the process with status 1
CheckerStart ==
    /\ checker.pc = "idle"
    /\ \E mode \in {"no_discount", "seen_before"}, readable, given \in BOOLEAN,
          text \in CheckerTexts, latest_file \in CheckerLatest,
          threshold \in CheckerThresholds :
          checker' =
              IF ~readable THEN [pc |-> "exit", mode |-> mode, readable |-> FALSE,
                                 status |-> 1]
              ELSE IF mode = "seen_before" /\ ~given
              THEN [pc |-> "exit", mode |-> mode, readable |-> TRUE, given |-> FALSE,
                    text |-> text, status |-> 1]
              ELSE [pc |-> "check", mode |-> mode, readable |-> TRUE, given |-> TRUE,
                    text |-> text,
                    latest_file |-> IF mode = "seen_before" THEN latest_file
                                    ELSE LatestNotFound,
                    threshold |-> threshold]
    /\ UNCHANGED <<pc, run, args_min_discount, prefs, min_discount, md_files, next_file,
                   all_products, retailers, unique_products, filtered, jpy_usd_rate,
                   cache_file, lookups, result, clock, snapshots, latest, deals_html,
                   exit_status, extracted>>

\* lines 74-83: sys.exit(0 if should_continue else 1)
CheckerExit ==
    /\ checker.pc = "check"
    /\ LET should_continue ==
               IF checker.mode = "no_discount" THEN check_no_discount(checker.text)
               ELSE check_seen_before(checker.text, checker.latest_file,
                                      checker.threshold)
       IN  checker' = [checker EXCEPT !.pc = "exit"]
                      @@ [status |-> IF should_continue THEN 0 ELSE 1]
    /\ UNCHANGED <<pc, run, args_min_discount, prefs, min_discount, md_files, next_file,
                   all_products, retailers, unique_products, filtered, jpy_usd_rate,
                   cache_file, lookups, result, clock, snapshots, latest, deals_html,
                   exit_status, extracted>>

NextChecker == CheckerStart \/ CheckerExit

\* one run of the pagination checker
SpecChecker == InitOf(Pages) /\ [][NextChecker]_vars

-----------------------------------------------------------------------------
(* The extractors applied to one text *)

\* the sequences of at most MaxLines of the lines
LineSeqs(alphabet) == UNION {[1..n -> alphabet] : n \in 0..MaxLines}

UsdLines ==
    {Txt("Marni"), Txt("Wool Coat"), Usd(60), Usd(100), UsdCommas, Pct(50, "off"),
     Txt("FINAL SALE"), Txt("SALE ONLY")}

\* the lines of the simplest format: a header line in place of the percent line
SsenseLines == (UsdLines \ {Pct(50, "off")}) \cup {Tok("hdr", 0, "# Sale", <<>>, FALSE)}

JpyLines ==
    {Txt("KAPITAL"), Txt("Jacket"), Jpy(800), Jpy(2), JpyCommas, Item(Pct(20, "OFF")),
     Pct(0, "off"), Pct(100, "OFF"), Pct(150, "OFF")}

\* the markup around the lines of a span whose link is u: the label opens at
\* the first character ("first"), holds an image link and follows other text
\* ("nested"), has no opening bracket ("unopened"), has none and is followed
\* by a well-formed span of v ("unopened_then"), or has none and follows a
\* well-formed span of v ("after_link")
ExtractShapes == {"first", "nested", "unopened", "unopened_then", "after_link"}

TextOfShape(shape, u, v, img, lines) ==
    CASE shape = "first" -> LinkBlock(u, <<>>, lines)
      [] shape = "nested" -> <<Txt("Sale")>> \o LinkBlock(u, Image(img), lines)
      [] shape = "unopened" -> Unopened(u, lines)
      [] shape = "unopened_then" -> Unopened(u, lines) \o LinkBlock(v, <<>>, lines)
      [] shape = "after_link" -> LinkBlock(v, <<>>, lines) \o lines \o <<Close, Paren(u)>>

\* the candidates of url_re.finditer(text) with the start_pos the backward
\* scan gives each: <<end_pos, start_pos>>, start_pos 0 when it is skipped
RECURSIVE StartsFrom(_, _, _)
StartsFrom(text, i, pattern) ==
    LET m == FindLinkEnd(text, i, pattern)
    IN  IF m = 0 THEN <<>>
        ELSE <<<<m, MatchOpen(text, m)>>>> \o StartsFrom(text, m + 2, pattern)

Extracted(fmt, shape, lines, text, raised, products, starts) ==
    [pc |-> "done", fmt |-> fmt, shape |-> shape, lines |-> lines, text |-> text,
     raised |-> raised, products |-> IF raised THEN <<>> ELSE products,
     starts |-> starts]

ExtractSsense ==
    /\ extracted.pc = "idle"
    /\ \E lines \in LineSeqs(SsenseLines) :
          LET text == SsenseBlock(S2, lines)
          IN  extracted' = Extracted("ssense", "first", lines, text,
                                     parse_ssense_raises(text),
                                     parse_ssense_products_simple(text), <<>>)
    /\ UNCHANGED <<pc, run, args_min_discount, prefs, min_discount, md_files, next_file,
                   all_products, retailers, unique_products, filtered, jpy_usd_rate,
                   cache_file, lookups, result, clock, snapshots, latest, deals_html,
                   exit_status, checker>>

ExtractMrporter ==
    /\ extracted.pc = "idle"
    /\ \E lines \in LineSeqs(UsdLines), shape \in ExtractShapes :
          LET text == TextOfShape(shape, M2, M1, MrporterImage, lines)
          IN  extracted' = Extracted("mrporter", shape, lines, text,
                                     parse_mrporter_raises(text),
                                     parse_mrporter_products(text),
                                     StartsFrom(text, 1, "mrporter"))
    /\ UNCHANGED <<pc, run, args_min_discount, prefs, min_discount, md_files, next_file,
                   all_products, retailers, unique_products, filtered, jpy_usd_rate,
                   cache_file, lookups, result, clock, snapshots, latest, deals_html,
                   exit_status, checker>>

Extract2ndstreet ==
    /\ extracted.pc = "idle"
    /\ \E lines \in LineSeqs(JpyLines), shape \in ExtractShapes :
          LET text == TextOfShape(shape, J1, J2, SecondhandThumb, lines)
          IN  extracted' = Extracted("2ndstreet", shape, lines, text,
                                     parse_2ndstreet_raises(text),
                                     parse_2ndstreet_products(text),
                                     StartsFrom(text, 1, "2ndstreet"))
    /\ UNCHANGED <<pc, run, args_min_discount, prefs, min_discount, md_files, next_file,
                   all_products, retailers, unique_products, filtered, jpy_usd_rate,
                   cache_file, lookups, result, clock, snapshots, latest, deals_html,
                   exit_status, checker>>

NextExtract == ExtractSsense \/ ExtractMrporter \/ Extract2ndstreet

\* each extractor applied once to the text of one span
SpecExtract == InitOf(Pages) /\ [][NextExtract]_vars

-----------------------------------------------------------------------------
(* Properties *)

Stages == <<"parse", "dedup", "filter", "currency", "image", "feedback", "build",
            "dump", "unlink", "symlink", "html", "done">>

StageNo(p) == CHOOSE i \in 1..Len(Stages) : Stages[i] = p

\* the current run has reached the given position of main()
Reached(stage) == pc \in {Stages[i] : i \in StageNo(stage)..Len(Stages)}

\* position of the first record with the given url
FirstIndex(products, url) ==
    CHOOSE i \in 1..Len(products) :
        products[i].url = url /\ \A j \in 1..(i - 1) : products[j].url # url

DistinctUrls(products) ==
    \A i, j \in 1..Len(products) : i # j => products[i].url # products[j].url

\* C1: once the run has deduplicated, every parsed url has a record in
\* unique_products, each record of unique_products is the first parsed record
\* of its url, the records stand in the order of those first occurrences (so no
\* url occurs twice), and no two emitted records share a url.
C1_DedupKeepsFirst ==
    Reached("filter") =>
        /\ \A i \in 1..Len(all_products) :
              \E j \in 1..Len(unique_products) : unique_products[j].url = all_products[i].url
        /\ \A j \in 1..Len(unique_products) :
              unique_products[j] = all_products[FirstIndex(all_products, unique_products[j].url)]
        /\ \A j, k \in 1..Len(unique_products) :
              j < k => FirstIndex(all_products, unique_products[j].url)
                         < FirstIndex(all_products, unique_products[k].url)
        /\ DistinctUrls(filtered)
        /\ result # NoResult => DistinctUrls(result.products)

\* a run has just deduplicated a list in which a url occurs on two different
\* records, the second one not directly behind the first
C1_Witness ==
    /\ pc = "filter"
    /\ Len(unique_products) >= 2
    /\ \E i, j \in 1..Len(all_products) :
          /\ i + 1 < j
          /\ all_products[i].url = all_products[j].url
          /\ all_products[i] # all_products[j]
          /\ all_products[i + 1].url # all_products[i].url

\* C2: once the run has filtered, a record of unique_products has a record of
\* its url in filtered exactly when it is secondhand or its discount_pct is at
\* least min_discount.
C2_FilterRule ==
    Reached("currency") =>
        \A j \in 1..Len(unique_products) :
            (unique_products[j].url \in UrlsOf(filtered))
                <=> (\/ unique_products[j].retailer_type = "secondhand"
                     \/ unique_products[j].discount_pct >= min_discount)

\* a secondhand record with discount 0 is kept and a standard record below the
\* threshold is dropped
C2_Witness ==
    /\ pc = "currency"
    /\ \E j \in 1..Len(unique_products) :
          /\ unique_products[j].retailer_type = "secondhand"
          /\ unique_products[j].discount_pct = 0
          /\ unique_products[j].url \in UrlsOf(filtered)
    /\ \E j \in 1..Len(unique_products) :
          /\ unique_products[j].retailer_type = "standard"
          /\ unique_products[j].discount_pct < min_discount
          /\ unique_products[j].url \notin UrlsOf(filtered)

\* C3: the threshold of a run is --min-discount whenever it is supplied, and
\* the preferences value, or 50, only when it is not.
C3_ArgumentWins ==
    run > 0 =>
        min_discount = IF args_min_discount # NoArg THEN CHOOSE n \in args_min_discount : TRUE
                       ELSE IF prefs # NoPref THEN CHOOSE n \in prefs : TRUE
                       ELSE DefaultMinDiscount

\* C4: from the sort on, the record list is in descending order of
\* discount_pct, records of equal discount_pct stand in the order they have in
\* unique_products, and every record still has the discount_pct it had there;
\* the same holds of the products of the result.
SortedStable(products) ==
    /\ \A i \in 1..Len(products) :
          /\ products[i].url \in UrlsOf(unique_products)
          /\ products[i].discount_pct
                = unique_products[FirstIndex(unique_products, products[i].url)].discount_pct
    /\ \A i, j \in 1..Len(products) :
          i < j =>
             \/ products[i].discount_pct > products[j].discount_pct
             \/ /\ products[i].discount_pct = products[j].discount_pct
                /\ FirstIndex(unique_products, products[i].url)
                     < FirstIndex(unique_products, products[j].url)

C4_SortedDescendingStable ==
    Reached("currency") =>
        /\ SortedStable(filtered)
        /\ result # NoResult => SortedStable(result.products)

\* a completed run whose emitted list has a tie behind a greater discount, a
\* converted record, a resolved image and a feedback tag
C4_Witness ==
    /\ pc = "done"
    /\ \E i, j, k \in 1..Len(result.products) :
          /\ i < j /\ j < k
          /\ result.products[i].discount_pct > result.products[j].discount_pct
          /\ result.products[j].discount_pct = result.products[k].discount_pct
    /\ \E i \in 1..Len(result.products) : "sale_price_jpy" \in DOMAIN result.products[i]
    /\ \E i \in 1..Len(result.products) : "cortex_status" \in DOMAIN result.products[i]
    /\ lookups # {}

\* C5: a run that has at least one input document never ends before the
\* output is written, whatever fails on the way.
C5_RunsNeverAbort == pc = "exit" => md_files = <<>>

\* the step of a run that finds no input document
NoInputStep == run' = run + 1 /\ md_files' = <<>>

\* C6 as stated: a run without input documents ends with a non-zero status and
\* writes no snapshot, no latest pointer and no rendering.
C6_AbortsNonZero ==
    [][NoInputStep =>
          /\ exit_status' # {} /\ exit_status' # {0}
          /\ UNCHANGED <<snapshots, latest, deals_html>>]_vars

\* C6 as amended: a run without input documents ends at once with status 0 and
\* writes no snapshot, no latest pointer and no rendering.
C6_EndsWithoutOutput ==
    [][NoInputStep =>
          /\ pc' = "exit" /\ exit_status' = {0}
          /\ UNCHANGED <<snapshots, latest, deals_html>>]_vars

\* a second run finds no input after a first run has written its output
C6_Witness ==
    /\ pc = "exit" /\ md_files = <<>> /\ exit_status = {0}
    /\ run = 2 /\ latest # {} /\ deals_html # {}

\* what an observer of latest.json finds: the link, and behind it a snapshot
\* that is completely written
PointerComplete ==
    /\ latest # {}
    /\ \A t \in latest : t \in DOMAIN snapshots /\ snapshots[t] = "complete"

\* C7: once the latest pointer exists, every later state has the pointer, and
\* the pointer references a complete snapshot.
C7_PointerAlwaysComplete == [][latest # {} => PointerComplete']_vars

Abs(n) == IF n < 0 THEN 0 - n ELSE n

\* new is an integer nearest to old * rate
Nearest(new, old, rate) == 2 * Abs(new * rate[2] - old * rate[1]) <= rate[2]

BeforeStages(p) == unique_products[FirstIndex(unique_products, p.url)]

\* C8: right after the currency stage, with a rate r: a record that was JPY
\* carries its former prices as sale_price_jpy and original_price_jpy, has as
\* prices integers nearest to the former prices times r, has currency USD and
\* is otherwise as before; a record that was not JPY is as before; converting
\* once more changes nothing.  Without a rate every record is as before.
C8_CurrencyStage ==
    pc = "image" =>
        /\ \A i \in 1..Len(filtered) :
              LET p == filtered[i]
                  o == BeforeStages(p)
                  r == CHOOSE x \in jpy_usd_rate : TRUE
              IN  IF jpy_usd_rate # NoRate /\ o.currency = "JPY"
                  THEN /\ DOMAIN p = DOMAIN o \cup {"sale_price_jpy", "original_price_jpy"}
                       /\ p.sale_price_jpy = o.sale_price
                       /\ p.original_price_jpy = o.original_price
                       /\ Nearest(p.sale_price, o.sale_price, r)
                       /\ Nearest(p.original_price, o.original_price, r)
                       /\ p.currency = "USD"
                       /\ \A f \in DOMAIN o \ {"sale_price", "original_price", "currency"} :
                             p[f] = o[f]
                  ELSE p = o
        /\ jpy_usd_rate # NoRate =>
              convert_jpy_to_usd(filtered, CHOOSE x \in jpy_usd_rate : TRUE) = filtered

\* the stage has converted a JPY record next to a record that was USD already
C8_Witness ==
    /\ pc = "image"
    /\ jpy_usd_rate # NoRate
    /\ \E i, j \in 1..Len(filtered) :
          /\ "sale_price_jpy" \in DOMAIN filtered[i]
          /\ filtered[i].sale_price # filtered[i].sale_price_jpy
          /\ "sale_price_jpy" \notin DOMAIN filtered[j]

\* a step that carries a run through the image stage
ImageStep == pc = "image" /\ pc' = "feedback"

\* C9: an entry of the persisted cache stays in it for good; in the image
\* stage a record whose pid is in the persisted cache gets its image from the
\* cache and is not looked up; the image of a successful lookup is in the
\* persisted cache when the stage ends; a failed lookup leaves its record
\* without image, puts its pid in the cache only if another record of that pid
\* was looked up with success, and every record that missed the cache was
\* looked up as well.
C9_ImageCachePersists ==
    [][/\ cache_file.state = "ok" =>
             /\ cache_file'.state = "ok"
             /\ \A pid \in DOMAIN cache_file.map :
                   pid \in DOMAIN cache_file'.map /\ cache_file'.map[pid] = cache_file.map[pid]
       /\ ImageStep =>
             \A i \in 1..Len(filtered) :
                 LET p == filtered[i]
                     q == filtered'[i]
                     pid == Pid(p.url)
                     cache == LoadedCache(cache_file)
                 IN  NeedsImage(p) =>
                       /\ pid \in DOMAIN cache =>
                             q.image_url = cache[pid] /\ p.url \notin lookups'
                       /\ (p.url \in lookups' /\ q.image_url # NoImage) =>
                             /\ cache_file'.state = "ok"
                             /\ pid \in DOMAIN cache_file'.map
                             /\ cache_file'.map[pid] = q.image_url
                       /\ (p.url \in lookups' /\ q.image_url = NoImage) =>
                             /\ pid \in DOMAIN cache_file'.map =>
                                   \E j \in 1..Len(filtered) :
                                       /\ Pid(filtered[j].url) = pid
                                       /\ filtered[j].url \in lookups'
                                       /\ filtered'[j].image_url # NoImage
                             /\ \A j \in 1..Len(filtered) :
                                   (NeedsImage(filtered[j])
                                      /\ Pid(filtered[j].url) \notin DOMAIN cache)
                                   => filtered[j].url \in lookups'
      ]_vars

\* a later run has resolved a record from the cache, without any lookup; the
\* cache holds no entry before the first run, so a lookup of an earlier run
\* has put it there
C9_Witness ==
    /\ run = 2 /\ pc = "feedback"
    /\ lookups = {}
    /\ cache_file.state = "ok"
    /\ \E i \in 1..Len(filtered) :
          /\ filtered[i].retailer = "ssense"
          /\ Pid(filtered[i].url) \in DOMAIN cache_file.map
          /\ filtered[i].image_url = cache_file.map[Pid(filtered[i].url)]

\* C10 as stated: the image stage resolves the records of the marketplace
\* format (parse_mrporter_products, first price the original price) that have
\* no image URL, and leaves the image_url of every other record unchanged.
C10_MarketplaceRecords ==
    [][ImageStep =>
          \A i \in 1..Len(filtered) :
              IF filtered[i].retailer = "mrporter" /\ filtered[i].image_url = NoImage
              THEN filtered'[i].image_url # NoImage \/ filtered[i].url \in lookups'
              ELSE filtered'[i].image_url = filtered[i].image_url
      ]_vars

\* C10 as amended: the image stage acts on exactly the records with retailer
\* ssense and no image URL: such a record gets its image from the cache when
\* its pid is there, and is otherwise looked up (or no record at all is looked
\* up, for want of a credential); every other record is left as it is and is
\* not looked up.  A stage that ends the run changes no record.
C10_SsenseRecords ==
    [][pc = "image" =>
          \A i \in 1..Len(filtered) :
              LET p == filtered[i]
                  q == filtered'[i]
                  cache == LoadedCache(cache_file)
              IN  IF ~ImageStep THEN q = p
                  ELSE IF p.retailer = "ssense" /\ p.image_url = NoImage
                  THEN IF Pid(p.url) \in DOMAIN cache
                       THEN q = [p EXCEPT !.image_url = cache[Pid(p.url)]]
                            /\ p.url \notin lookups'
                       ELSE \/ /\ p.url \in lookups'
                               /\ \/ q = p
                                  \/ q = [p EXCEPT !.image_url =
                                                      SsenseImage(ProductCode(p.url))]
                            \/ lookups' = {} /\ q = p
                  ELSE q = p /\ p.url \notin lookups'
      ]_vars

\* the stage has looked up and resolved an ssense record while a record of
\* the marketplace format and a record of an unnamed retailer stay without image
C10_Witness ==
    /\ pc = "feedback"
    /\ lookups # {}
    /\ \E i, j \in 1..Len(filtered) :
          /\ filtered[i].retailer = "mrporter" /\ filtered[i].image_url = NoImage
          /\ filtered[j].retailer = "ssense" /\ filtered[j].image_url # NoImage
          /\ filtered[j].url \in lookups

\* C11: in seen_before mode, for a page with at least one product URL and a
\* loadable latest.json, the checker exits with 1 exactly when the proportion
\* of the page's distinct product URLs present in latest.json is strictly
\* greater than the threshold, and with 0 otherwise (equality included).
CheckerDecided ==
    /\ checker.pc = "exit"
    /\ checker.mode = "seen_before"
    /\ checker.readable
    /\ checker.given
    /\ checker.latest_file.loadable
    /\ PageUrls(checker.text) # {}

C11_StopsOnlyAboveThreshold ==
    CheckerDecided =>
        LET page_urls == PageUrls(checker.text)
            overlap == page_urls \cap KnownUrls(checker.latest_file)
        IN  (checker.status = 1)
            <=> (Cardinality(overlap) * checker.threshold[2]
                 > checker.threshold[1] * Cardinality(page_urls))

\* the applications of an extractor to a text that holds a span with a
\* matched opening bracket around the lines extracted.lines
SpanOf(fmts) ==
    /\ extracted.pc = "done"
    /\ extracted.fmt \in fmts
    /\ extracted.shape \in {"first", "nested"}

\* C12: a span yields a record if and only if it has at least 2 price lines
\* and at least 1 free-text line; the simplest-format extractor sets
\* sale_price to the first price line and original_price to the second, the
\* marketplace-format extractor the other way round, whatever the magnitudes;
\* a span failing the minimum yields no record and no error.
C12_PositionalPrices ==
    SpanOf({"ssense", "mrporter"}) =>
        LET prices == Prices(extracted.lines, "usd")
            texts == Texts(extracted.lines, extracted.fmt)
            enough == Len(prices) >= 2 /\ Len(texts) >= 1
            first == IF extracted.fmt = "ssense" THEN "sale_price" ELSE "original_price"
            second == IF extracted.fmt = "ssense" THEN "original_price" ELSE "sale_price"
        IN  /\ ~extracted.raised
            /\ Len(extracted.products) = (IF enough THEN 1 ELSE 0)
            /\ enough => /\ extracted.products[1][first] = prices[1]
                         /\ extracted.products[1][second] = prices[2]

\* the last line of class kind among lines, as a set: {} when there is none
LastOf(lines, kind) ==
    LET at == {i \in 1..Len(lines) : lines[i].k = kind}
    IN  {lines[i].n : i \in {j \in at : \A k \in at : k <= j}}

\* C13: for every secondhand span with a price line and at least one
\* free-text line the extractor yields a record with currency JPY and
\* retailer_type secondhand; without a discount line original_price equals
\* sale_price and discount_pct is 0; with a discount line of pct (any matched
\* integer percentage) sale_price is the price line, discount_pct is pct and
\* original_price is round(price / (1 - pct/100)).
C13_SecondhandPrices ==
    (/\ SpanOf({"2ndstreet"})
     /\ LastOf(extracted.lines, "jpy") # {}
     /\ Len(Texts(extracted.lines, "2ndstreet")) >= 1) =>
        /\ ~extracted.raised
        /\ Len(extracted.products) = 1
        /\ LET p == extracted.products[1]
               price == CHOOSE n \in LastOf(extracted.lines, "jpy") : TRUE
               pcts == LastOf(extracted.lines, "pct")
           IN  /\ p.currency = "JPY"
               /\ p.retailer_type = "secondhand"
               /\ p.sale_price = price
               /\ pcts = {} => p.discount_pct = 0 /\ p.original_price = price
               /\ \A pct \in pcts :
                     /\ p.discount_pct = pct
                     /\ pct # 100
                     /\ p.original_price =
                            (IF pct < 100 THEN Round(price * 100, 100 - pct)
                             ELSE 0 - Round(price * 100, pct - 100))

\* the counter of the backward scan from end_pos when it has passed position
\* p: 1, plus the "]" and minus the "[" in p..end_pos-1
Counter(text, p, end_pos) ==
    1 + Cardinality({i \in p..(end_pos - 1) : text[i].k = "]"})
      - Cardinality({i \in p..(end_pos - 1) : text[i].k \in {"[", "!["}})

\* the position nearest to end_pos at which the counter is zero, 0 if none
FirstZero(text, end_pos) ==
    LET zeros == {p \in 1..(end_pos - 1) : Counter(text, p, end_pos) = 0}
    IN  IF zeros = {} THEN 0 ELSE CHOOSE p \in zeros : \A q \in zeros : q <= p

LinkEnds(text, pattern) ==
    {m \in 1..(Len(text) - 1) :
        text[m].k = "]" /\ text[m + 1].k = "(" /\ UrlIs(pattern, text[m + 1].u)}

\* C14: in the marketplace and secondhand extractors the span of a product
\* URL starts at the "[" at which the backward counter first reaches zero,
\* also when that "[" is the first character of the text; a candidate whose
\* counter is still positive at the start of the text is skipped and the scan
\* goes on with the next URL; a label with a nested image link resolves to
\* the outer label.
C14_BracketMatching ==
    (extracted.pc = "done" /\ extracted.fmt \in {"mrporter", "2ndstreet"}) =>
        LET text == extracted.text
            starts == extracted.starts
        IN  /\ {starts[i][1] : i \in 1..Len(starts)} = LinkEnds(text, extracted.fmt)
            /\ \A i \in 1..Len(starts) :
                  /\ starts[i][2] = FirstZero(text, starts[i][1])
                  /\ starts[i][2] # 0 => text[starts[i][2]].k = "["
            /\ extracted.shape = "first" => starts[1][2] = 1
            /\ extracted.shape = "nested" =>
                  /\ starts[1][2] = 2
                  /\ \A i \in 1..Len(extracted.products) :
                        extracted.products[i].image_url # NoImage
            /\ \A i \in 1..Len(extracted.products) :
                  \E j \in 1..Len(starts) :
                      /\ starts[j][2] # 0
                      /\ text[starts[j][1] + 1].u = extracted.products[i].url
            /\ (extracted.shape \in {"unopened_then", "after_link"}
                /\ ~extracted.raised
                /\ (IF extracted.fmt = "mrporter"
                    THEN Len(Prices(extracted.lines, "usd")) >= 2
                    ELSE Len(Prices(extracted.lines, "jpy")) >= 1)
                /\ Len(Texts(extracted.lines, extracted.fmt)) >= 1) =>
                   /\ Len(starts) = 2
                   /\ Len(extracted.products) = 1

\* a nested image label resolved to the outer label, and a skipped candidate
\* followed by a span that yields its record
C14_Witness ==
    /\ extracted.pc = "done"
    /\ extracted.fmt = "2ndstreet"
    /\ extracted.shape = "unopened_then"
    /\ Len(extracted.starts) = 2
    /\ extracted.starts[1][2] = 0
    /\ extracted.starts[2][2] # 0
    /\ Len(extracted.products) = 1
    /\ extracted.products[1].url = J2

\* C15: in every completed run meta.total_filtered is the number of emitted
\* records, meta.total_parsed is the number of distinct URLs among all parsed
\* records, total_filtered is at most total_parsed, and the retailer of every
\* emitted record is in meta.retailers.
C15_MetaConsistent ==
    result # NoResult =>
        /\ result.meta.total_filtered = Len(result.products)
        /\ result.meta.total_parsed =
               Cardinality({all_products[i].url : i \in 1..Len(all_products)})
        /\ result.meta.total_filtered <= result.meta.total_parsed
        /\ \A i \in 1..Len(result.products) :
               result.products[i].retailer \in result.meta.retailers

\* a completed run with a repeated URL, two retailers and a dropped record
C15_Witness ==
    /\ pc = "done"
    /\ result # NoResult
    /\ Len(all_products) > result.meta.total_parsed
    /\ result.meta.total_filtered < result.meta.total_parsed
    /\ result.meta.total_filtered > 0
    /\ Cardinality(result.meta.retailers) = 2

====
